---- MODULE Spec2Model ----
(***************************************************************************)
(* A model of monitor.py: the four data-fetching functions                *)
(* (get_ip_address, get_cpu_info, get_ram_info, get_gpu_info), the        *)
(* start-up detection of GPUtil, and the Tk refresh loop of               *)
(* SystemMonitorApp (update_info re-armed with root.after).               *)
(*                                                                         *)
(* Two specifications share the definitions of the sensors:               *)
(*   Spec        the running program: import, construction, the ticks,    *)
(*               the Tk main loop, UI events and the close request;       *)
(*   SensorSpec  single calls of the four sensor functions on every       *)
(*               combination of the faults of the calls they make.        *)
(***************************************************************************)
EXTENDS Integers, Sequences, FiniteSets, TLC

VARIABLES
    pc,              \* position of the main thread
    gpus_available,  \* module global set by the import of GPUtil
    importOutcome,   \* how `import GPUtil` ended (history)
    display,         \* the seven tk.StringVar values
    timers,          \* armed root.after callbacks: remaining ms of each
    inflight,        \* executions of update_info entered and not yet left
    elapsed,         \* ms spent so far inside the running update_info
    uiPending,       \* UI input events queued for the main loop
    closeRequested,  \* the window-close request is queued
    tick,            \* what the last finished update_info did (history)
    lastPublished,   \* display as left by the last complete publication
    everPublished,   \* some update_info has completed lines 171-177
    getGPUsInvoked,  \* GPUtil.getGPUs has been called at least once
    sensorCall       \* SensorSpec: the sensor call under examination

vars == <<pc, gpus_available, importOutcome, display, timers, inflight,
          elapsed, uiPending, closeRequested, tick, lastPublished,
          everPublished, getGPUsInvoked, sensorCall>>

-----------------------------------------------------------------------------
(* Bounds of the model *)

\* UI input events that may wait in the queue at once.
MaxUI == 1

\* Longest duration of one update_info that the model distinguishes, in
\* timer periods.
MaxPeriodsElapsed == 2

-----------------------------------------------------------------------------
(* Program constants *)

\* root.after(1000, self.update_info)
Period == 1000

Placeholder == "Fetching..."

IpNetworkError == "N/A (Network Error)"
IpError == "N/A (Error)"
CpuNameMissing == "N/A"
CpuNameError == "N/A (Error getting name)"
NA == "N/A"
GpuUnavailable == "N/A (GPUtil unavailable)"
GpuNoDevice == "N/A (No supported GPU found)"
GpuQueryError == "N/A (Error querying GPU)"


-----------------------------------------------------------------------------
(* Formatting *)

\* f"{x:.1f}%" of a percentage x given in hundredths of a percent
\* (4236 is 42.36): rounded to tenths, then printed with one decimal.
FormatPct(h) ==
    LET t == (h + 5) \div 10
    IN  ToString(t \div 10) \o "." \o ToString(t % 10) \o "%"

\* f"{total / (1024**3):.2f} GB" of a capacity given in MiB
\* (2048 MiB is 2147483648 bytes): hundredths of a GiB, two decimals.
FormatGB(mib) ==
    LET c == (mib * 100 + 512) \div 1024
        d == c % 100
    IN  ToString(c \div 100) \o "." \o ToString(d \div 10) \o ToString(d % 10)
            \o " GB"

\* A float as update_info sees it (isinstance(x, (int, float)) holds).
Num(h) == [isnum |-> TRUE, num |-> h, str |-> ""]

\* A str as update_info sees it.
Str(s) == [isnum |-> FALSE, num |-> 0, str |-> s]

\* f"{x:.1f}%" if isinstance(x, (int, float)) else x
ShownUsage(x) == IF x.isnum THEN FormatPct(x.num) ELSE x.str

-----------------------------------------------------------------------------
(* get_ip_address *)

\* A dotted-quad address is kept as its text; its first octet.
FirstOctet(a) ==
    CASE a = "127.0.0.1" -> 127
      [] a = "127.0.1.1" -> 127
      [] a = "10.0.0.5" -> 10
      [] a = "192.168.1.50" -> 192
      [] OTHER -> 0

\* Addresses the resolver and getsockname may answer with.
Addrs == {"127.0.0.1", "127.0.1.1", "10.0.0.5", "192.168.1.50"}

\* ip_address.startswith("127.")
startswith127(a) == FirstOctet(a) = 127

\* How a library call may end other than by returning: socket.gaierror, or
\* another subclass of Exception (OSError, ...).
Faults == {"gaierror", "error"}

\* The outcome of a block of code: a returned value or an exception leaving
\* it, with what happened to the fallback socket.
Returned(v, opened, closed) ==
    [exc |-> "none", value |-> v, opened |-> opened, closed |-> closed]

Raised(e, opened, closed) ==
    [exc |-> e, value |-> "", opened |-> opened, closed |-> closed]

\* The try/except/finally of lines 36-44, entered with the socket open.
\* f.connect: "ok" or a fault; f.sockname: an address or a fault;
\* f.resolve2: an address or a fault (the re-fetch of line 42).
ip_trick(f) ==
    IF f.connect = "ok" /\ f.sockname \notin Faults
    THEN Returned(f.sockname, TRUE, TRUE)
    ELSE IF f.resolve2 \in Faults
         THEN Raised(f.resolve2, TRUE, TRUE)
         ELSE Returned(f.resolve2, TRUE, TRUE)

\* The body of the outer try, lines 28-45.
ip_body(f) ==
    IF f.hostname \in Faults THEN Raised(f.hostname, FALSE, FALSE)
    ELSE IF f.resolve1 \in Faults THEN Raised(f.resolve1, FALSE, FALSE)
    ELSE IF ~startswith127(f.resolve1) THEN Returned(f.resolve1, FALSE, FALSE)
    ELSE IF f.socket \in Faults THEN Raised(f.socket, FALSE, FALSE)
    ELSE IF f.settimeout \in Faults THEN Raised(f.settimeout, TRUE, FALSE)
    ELSE ip_trick(f)

\* Mutant of ip_handlers: only socket.gaierror is handled.
ip_handlers_gaierror_only(r) ==
    IF r.exc = "gaierror" THEN Returned(IpNetworkError, r.opened, r.closed)
    ELSE r

\* The handlers of lines 46-50 applied to the outcome of the body.
ip_handlers(r) ==
    IF r.exc = "gaierror" THEN Returned(IpNetworkError, r.opened, r.closed)
    ELSE IF r.exc = "error" THEN Returned(IpError, r.opened, r.closed)
    ELSE r

get_ip_address(f) == ip_handlers(ip_body(f))

\* Every combination of outcomes of the calls get_ip_address makes.
IpInputs ==
    [hostname : {"ok"} \cup Faults,
     resolve1 : Addrs \cup Faults,
     socket : {"ok"} \cup Faults,
     settimeout : {"ok"} \cup Faults,
     connect : {"ok"} \cup Faults,
     sockname : Addrs \cup Faults,
     resolve2 : Addrs \cup Faults]

\* The outcomes the resolver has inside a tick of the running program.
TickIpInputs ==
    [hostname : {"ok"}, resolve1 : {"10.0.0.5", "gaierror"}, socket : {"ok"},
     settimeout : {"ok"}, connect : {"ok"}, sockname : {"192.168.1.50"},
     resolve2 : {"10.0.0.5"}]

-----------------------------------------------------------------------------
(* get_cpu_info *)

NoBrand == "<no brand_raw>"

\* cpuinfo.get_cpu_info(): a dictionary with brand_raw, one without, or an
\* exception.  psutil.cpu_percent: a float (hundredths of a percent) or an
\* exception.
CpuInputs ==
    [info : {"Test CPU", "Other CPU", NoBrand, "error"},
     percent : {Num(4236), Num(0), Num(10000), Str("error")}]

TickCpuInputs == [info : {"Test CPU", "error"}, percent : {Num(4236)}]

\* Lines 54-60.
cpu_name_of(f) ==
    IF f.info = "error" THEN CpuNameError
    ELSE IF f.info = NoBrand THEN CpuNameMissing
    ELSE f.info

\* Lines 63-67.
cpu_percent_of(f) == IF f.percent.isnum THEN f.percent ELSE Str(NA)

\* Mutant of get_cpu_info: one try block around both lookups, so a failed
\* name lookup skips the usage measurement.
get_cpu_info_single_try(f) ==
    IF f.info = "error"
    THEN [exc |-> "none", name |-> CpuNameError, usage |-> Str(NA)]
    ELSE [exc |-> "none", name |-> cpu_name_of(f), usage |-> cpu_percent_of(f)]

get_cpu_info(f) ==
    [exc |-> "none", name |-> cpu_name_of(f), usage |-> cpu_percent_of(f)]

-----------------------------------------------------------------------------
(* get_ram_info *)

\* psutil.virtual_memory(): total (MiB) and percent (hundredths), or an
\* exception.
RamInputs ==
    [ok : BOOLEAN, total : {2048, 16384, 7977}, percent : {3750, 9999}]

TickRamInputs == [ok : BOOLEAN, total : {2048}, percent : {3750}]

get_ram_info(f) ==
    IF f.ok
    THEN [exc |-> "none", total |-> FormatGB(f.total), usage |-> Num(f.percent)]
    ELSE [exc |-> "none", total |-> NA, usage |-> Str(NA)]

-----------------------------------------------------------------------------
(* get_gpu_info *)

\* A device as GPUtil reports it: name and load (0.0-1.0, in thousandths).
Devices == [name : {"GPU A", "GPU B"}, load : {0, 550, 1000}]

\* Device lists of up to two devices.
DeviceLists ==
    {<<>>} \cup {<<d>> : d \in Devices}
        \cup {<<d, e>> : d \in Devices, e \in Devices}

\* GPUtil.getGPUs(): a list of devices or an exception.
GpuInputs == [fault : BOOLEAN, gpus : DeviceLists]

TickGpuInputs ==
    [fault : BOOLEAN, gpus : {<<[name |-> "GPU A", load |-> 550]>>}]

\* Mutant of gpu_query: the last device of the list is reported.
gpu_query_last(f) ==
    IF f.fault
    THEN [exc |-> "none", name |-> GpuQueryError, usage |-> NA, queried |-> TRUE]
    ELSE IF f.gpus = <<>>
    THEN [exc |-> "none", name |-> GpuNoDevice, usage |-> NA, queried |-> TRUE]
    ELSE [exc |-> "none", name |-> f.gpus[Len(f.gpus)].name,
          usage |-> FormatPct(f.gpus[Len(f.gpus)].load * 10),
          queried |-> TRUE]

\* Lines 87-108, reached with the capability present.
gpu_query(f) ==
    IF f.fault
    THEN [exc |-> "none", name |-> GpuQueryError, usage |-> NA, queried |-> TRUE]
    ELSE IF f.gpus = <<>>
    THEN [exc |-> "none", name |-> GpuNoDevice, usage |-> NA, queried |-> TRUE]
    ELSE [exc |-> "none", name |-> f.gpus[1].name,
          usage |-> FormatPct(f.gpus[1].load * 10), queried |-> TRUE]

\* Mutant of get_gpu_info: the test of the flag is missing.
get_gpu_info_unguarded(available, f) == gpu_query(f)

get_gpu_info(available, f) ==
    IF ~available
    THEN [exc |-> "none", name |-> GpuUnavailable, usage |-> NA,
          queried |-> FALSE]
    ELSE gpu_query(f)

-----------------------------------------------------------------------------
(* SystemMonitorApp *)

Sensors == <<"ip", "cpu", "ram", "gpu">>

\* The StringVars in the order update_info sets them (lines 171-177).
Fields ==
    <<"ip", "cpu_name", "cpu_usage", "ram_total", "ram_usage", "gpu_name",
      "gpu_usage">>

FieldSet == {Fields[i] : i \in 1..Len(Fields)}

\* A local of update_info that no statement has bound.
Unbound == "<unbound>"

\* The StringVars as __init__ creates them (lines 125-131).
InitialDisplay ==
    [ip |-> Placeholder, cpu_name |-> Placeholder, cpu_usage |-> Placeholder,
     ram_total |-> Placeholder, ram_usage |-> Placeholder,
     gpu_name |-> Placeholder, gpu_usage |-> Placeholder]

\* Mutant of Collect: the text of a failed GPU query is also bound to ip.
CollectSharedError(raiseAt, available, fi, fc, fr, fg) ==
    LET made == IF raiseAt = 0 THEN Len(Sensors) ELSE raiseAt
        got(i) == raiseAt = 0 \/ i < raiseAt
        ip == get_ip_address(fi)
        cpu == get_cpu_info(fc)
        ram == get_ram_info(fr)
        gpu == get_gpu_info(available, fg)
    IN  [made |-> made,
         raised |-> raiseAt # 0,
         queried |-> (made = 4 /\ gpu.queried),
         loc |->
            [ip |-> IF got(4) /\ gpu.name = GpuQueryError THEN gpu.name
                    ELSE IF got(1) THEN ip.value ELSE Unbound,
             cpu_name |-> IF got(2) THEN cpu.name ELSE Unbound,
             cpu_usage |-> IF got(2) THEN cpu.usage ELSE Str(Unbound),
             ram_total |-> IF got(3) THEN ram.total ELSE Unbound,
             ram_usage |-> IF got(3) THEN ram.usage ELSE Str(Unbound),
             gpu_name |-> IF got(4) THEN gpu.name ELSE Unbound,
             gpu_usage |-> IF got(4) THEN gpu.usage ELSE Unbound]]

\* Lines 165-168: the four calls in order.  raiseAt = 0: every call
\* returns; raiseAt = i: an exception leaves the i-th call, so the calls
\* after it are not made and their locals stay unbound.
\* Gives the locals, the number of calls made and whether the block raised.
Collect(raiseAt, available, fi, fc, fr, fg) ==
    LET made == IF raiseAt = 0 THEN Len(Sensors) ELSE raiseAt
        got(i) == raiseAt = 0 \/ i < raiseAt
        ip == get_ip_address(fi)
        cpu == get_cpu_info(fc)
        ram == get_ram_info(fr)
        gpu == get_gpu_info(available, fg)
    IN  [made |-> made,
         raised |-> raiseAt # 0,
         queried |-> (made = 4 /\ gpu.queried),
         loc |->
            [ip |-> IF got(1) THEN ip.value ELSE Unbound,
             cpu_name |-> IF got(2) THEN cpu.name ELSE Unbound,
             cpu_usage |-> IF got(2) THEN cpu.usage ELSE Str(Unbound),
             ram_total |-> IF got(3) THEN ram.total ELSE Unbound,
             ram_usage |-> IF got(3) THEN ram.usage ELSE Str(Unbound),
             gpu_name |-> IF got(4) THEN gpu.name ELSE Unbound,
             gpu_usage |-> IF got(4) THEN gpu.usage ELSE Unbound]]

\* The argument update_info passes to the set() of a field (lines 171-177).
Shown(loc, f) ==
    IF f \in {"cpu_usage", "ram_usage"} THEN ShownUsage(loc[f]) ELSE loc[f]

\* Mutant of SetVars: line 177 sets gpu_name_var a second time and
\* gpu_usage_var never.
SetVarsSkipLast(d, loc, k) ==
    [ip |-> IF 1 <= k THEN Shown(loc, "ip") ELSE d.ip,
     cpu_name |-> IF 2 <= k THEN Shown(loc, "cpu_name") ELSE d.cpu_name,
     cpu_usage |-> IF 3 <= k THEN Shown(loc, "cpu_usage") ELSE d.cpu_usage,
     ram_total |-> IF 4 <= k THEN Shown(loc, "ram_total") ELSE d.ram_total,
     ram_usage |-> IF 5 <= k THEN Shown(loc, "ram_usage") ELSE d.ram_usage,
     gpu_name |-> IF 7 <= k THEN Shown(loc, "gpu_usage")
                  ELSE IF 6 <= k THEN Shown(loc, "gpu_name") ELSE d.gpu_name,
     gpu_usage |-> d.gpu_usage]

\* Lines 171-177 with the first k set() calls done: k = 7 is the whole
\* block, k < 7 is an exception raised by the (k+1)-th statement.
SetVars(d, loc, k) ==
    [ip |-> IF 1 <= k THEN Shown(loc, "ip") ELSE d.ip,
     cpu_name |-> IF 2 <= k THEN Shown(loc, "cpu_name") ELSE d.cpu_name,
     cpu_usage |-> IF 3 <= k THEN Shown(loc, "cpu_usage") ELSE d.cpu_usage,
     ram_total |-> IF 4 <= k THEN Shown(loc, "ram_total") ELSE d.ram_total,
     ram_usage |-> IF 5 <= k THEN Shown(loc, "ram_usage") ELSE d.ram_usage,
     gpu_name |-> IF 6 <= k THEN Shown(loc, "gpu_name") ELSE d.gpu_name,
     gpu_usage |-> IF 7 <= k THEN Shown(loc, "gpu_usage") ELSE d.gpu_usage]

\* The try block of update_info (lines 163-182) on display d: the calls,
\* then the set() calls unless a call raised; the handler only prints.
TryBlock(d, c, k) ==
    IF c.raised
    THEN [display |-> d, sets |-> 0, error |-> TRUE]
    ELSE [display |-> SetVars(d, c.loc, k), sets |-> k,
          error |-> k < Len(Fields)]

\* Mutant of after: the callback is registered twice.
after_twice(ts) == Append(Append(ts, Period), Period)

\* root.after(1000, self.update_info), line 185.
after(ts) == Append(ts, Period)

\* Mutant of Rearm: root.after is the last statement of the try block, so
\* the handler skips it.
RearmInTry(ts, error) == IF error THEN ts ELSE Append(ts, Period)

\* Line 185 follows the try statement, so it runs whether the try block
\* ended normally or in the handler of line 179.
Rearm(ts, error) == after(ts)

\* What lines 165-168 can do in a tick of the running program.
TickCollections(available) ==
    {Collect(raiseAt, available, fi, fc, fr, fg) :
        raiseAt \in 0..Len(Sensors), fi \in TickIpInputs,
        fc \in TickCpuInputs, fr \in TickRamInputs, fg \in TickGpuInputs}

\* The same with only the resolver and the GPU query failing.
LoopCollections(available) ==
    {Collect(raiseAt, available, fi, fc, fr, fg) :
        raiseAt \in 0..Len(Sensors), fi \in TickIpInputs,
        fc \in {f \in TickCpuInputs : f.info # "error"},
        fr \in {f \in TickRamInputs : f.ok}, fg \in TickGpuInputs}

\* Numbers of successful set() calls: none (line 171 raises), two (line 173
\* raises), all seven.
LoopPoints == {0, 2, Len(Fields)}

\* Before the first update_info has finished.
NoTick == [made |-> 0, raised |-> FALSE, error |-> FALSE]

-----------------------------------------------------------------------------
(* The running program *)

Init ==
    /\ pc = "import"
    /\ gpus_available = FALSE
    /\ importOutcome = "pending"
    /\ display = InitialDisplay
    /\ timers = <<>>
    /\ inflight = 0
    /\ elapsed = 0
    /\ uiPending = 0
    /\ closeRequested = FALSE
    /\ tick = NoTick
    /\ lastPublished = InitialDisplay
    /\ everPublished = FALSE
    /\ getGPUsInvoked = FALSE
    /\ sensorCall = [fn |-> "none"]

\* Mutant of DetectGpu: the handler of line 17 leaves the flag true.
DetectGpuImportErrorOnly(outcome) == outcome # "ImportError"

\* The value lines 10-20 give gpus_available for an outcome of the import.
DetectGpu(outcome) == outcome = "ok"

\* Lines 10-20: import GPUtil succeeds, raises ImportError, or raises
\* another Exception.
Import ==
    /\ pc = "import"
    /\ \E outcome \in {"ok", "ImportError", "Exception"} :
          /\ importOutcome' = outcome
          /\ gpus_available' = DetectGpu(outcome)
    /\ pc' = "construct"
    /\ UNCHANGED <<display, timers, inflight, elapsed, uiPending,
                   closeRequested, tick, lastPublished, everPublished,
                   getGPUsInvoked, sensorCall>>

\* Lines 190-191 and __init__ up to line 159, where update_info is called
\* for the first time, directly.
Construct ==
    /\ pc = "construct"
    /\ display' = InitialDisplay
    /\ pc' = "sampling"
    /\ inflight' = inflight + 1
    /\ elapsed' = 0
    /\ UNCHANGED <<gpus_available, importOutcome, timers, uiPending,
                   closeRequested, tick, lastPublished, everPublished,
                   getGPUsInvoked, sensorCall>>

\* The main loop runs a due after-callback: update_info is entered.
FireTimer ==
    /\ pc = "idle"
    /\ \E i \in 1..Len(timers) :
          /\ timers[i] = 0
          /\ timers' = SubSeq(timers, 1, i - 1) \o SubSeq(timers, i + 1, Len(timers))
    /\ pc' = "sampling"
    /\ inflight' = inflight + 1
    /\ elapsed' = 0
    /\ UNCHANGED <<gpus_available, importOutcome, display, uiPending,
                   closeRequested, tick, lastPublished, everPublished,
                   getGPUsInvoked, sensorCall>>

\* The body of update_info, lines 163-185, run to its return, with the
\* outcome of lines 165-168 drawn from colls and the number of set() calls
\* that succeed drawn from points.
TickBody(colls, points) ==
    /\ pc = "sampling"
    /\ \E c \in colls, k \in points :
          LET t == TryBlock(display, c, k)
          IN  /\ c.raised => k = Len(Fields)
              /\ display' = t.display
              /\ tick' = [made |-> c.made, raised |-> c.raised,
                          error |-> t.error]
              /\ lastPublished' = IF t.error THEN lastPublished ELSE t.display
              /\ everPublished' = (everPublished \/ ~t.error)
              /\ getGPUsInvoked' = (getGPUsInvoked \/ c.queried)
              /\ timers' = Rearm(timers, t.error)
    /\ inflight' = inflight - 1
    /\ elapsed' = 0
    /\ pc' = "idle"
    /\ UNCHANGED <<gpus_available, importOutcome, uiPending, closeRequested,
                   sensorCall>>

UpdateInfo == TickBody(TickCollections(gpus_available), 0..Len(Fields))

\* Time passes by one period: armed callbacks come due, and a running
\* update_info has taken that much longer.
TimePasses ==
    /\ pc \in {"sampling", "idle"}
    /\ \/ \E i \in 1..Len(timers) : timers[i] > 0
       \/ pc = "sampling" /\ elapsed < MaxPeriodsElapsed * Period
    /\ timers' = [i \in 1..Len(timers) |->
                    IF timers[i] > Period THEN timers[i] - Period ELSE 0]
    /\ elapsed' = IF pc = "sampling" /\ elapsed < MaxPeriodsElapsed * Period
                  THEN elapsed + Period ELSE elapsed
    /\ UNCHANGED <<pc, gpus_available, importOutcome, display, inflight,
                   uiPending, closeRequested, tick, lastPublished,
                   everPublished, getGPUsInvoked, sensorCall>>

\* The user produces an input event; the window system queues it.
UIEventArrives ==
    /\ pc \in {"sampling", "idle"}
    /\ uiPending < MaxUI
    /\ uiPending' = uiPending + 1
    /\ UNCHANGED <<pc, gpus_available, importOutcome, display, timers,
                   inflight, elapsed, closeRequested, tick, lastPublished,
                   everPublished, getGPUsInvoked, sensorCall>>

\* main_root.mainloop() (line 192) dispatches a queued input event; it
\* does so only between callbacks.
HandleUIEvent ==
    /\ pc = "idle"
    /\ uiPending > 0
    /\ uiPending' = uiPending - 1
    /\ UNCHANGED <<pc, gpus_available, importOutcome, display, timers,
                   inflight, elapsed, closeRequested, tick, lastPublished,
                   everPublished, getGPUsInvoked, sensorCall>>

\* The user asks for the window to be closed.
CloseArrives ==
    /\ pc \in {"sampling", "idle"}
    /\ ~closeRequested
    /\ closeRequested' = TRUE
    /\ UNCHANGED <<pc, gpus_available, importOutcome, display, timers,
                   inflight, elapsed, uiPending, tick, lastPublished,
                   everPublished, getGPUsInvoked, sensorCall>>

\* The main loop dispatches the close request: the window is destroyed,
\* its after-callbacks are dropped and mainloop() returns (line 192).
HandleClose ==
    /\ pc = "idle"
    /\ closeRequested
    /\ pc' = "exited"
    /\ timers' = <<>>
    /\ UNCHANGED <<gpus_available, importOutcome, display, inflight, elapsed,
                   uiPending, closeRequested, tick, lastPublished,
                   everPublished, getGPUsInvoked, sensorCall>>

Next ==
    \/ Import
    \/ Construct
    \/ FireTimer
    \/ UpdateInfo
    \/ TimePasses
    \/ UIEventArrives
    \/ HandleUIEvent
    \/ CloseArrives
    \/ HandleClose

Spec == Init /\ [][Next]_vars

\* The running program with the smaller set of tick outcomes.
LoopUpdateInfo == TickBody(LoopCollections(gpus_available), LoopPoints)

LoopNext ==
    \/ Import
    \/ Construct
    \/ FireTimer
    \/ LoopUpdateInfo
    \/ TimePasses
    \/ UIEventArrives
    \/ HandleUIEvent
    \/ CloseArrives
    \/ HandleClose

\* The process receives a termination signal.  The program installs no
\* handler (lines 189-192), so the signal has its default effect: the
\* process ends where it is, whether in mainloop() or inside update_info.
Terminate ==
    /\ pc \in {"sampling", "idle"}
    /\ pc' = "killed"
    /\ timers' = <<>>
    /\ UNCHANGED <<gpus_available, importOutcome, display, inflight, elapsed,
                   uiPending, closeRequested, tick, lastPublished,
                   everPublished, getGPUsInvoked, sensorCall>>

\* The running program in an environment that also sends signals.
SignalNext ==
    \/ Import
    \/ Construct
    \/ FireTimer
    \/ LoopUpdateInfo
    \/ TimePasses
    \/ UIEventArrives
    \/ HandleUIEvent
    \/ CloseArrives
    \/ HandleClose
    \/ Terminate

SignalSpec == Init /\ [][SignalNext]_vars

\* The Tk main loop keeps dispatching what is due, a call of update_info
\* returns, and time passes.
FairSpec ==
    /\ Init
    /\ [][LoopNext]_vars
    /\ WF_vars(Import)
    /\ WF_vars(Construct)
    /\ WF_vars(FireTimer)
    /\ WF_vars(LoopUpdateInfo)
    /\ WF_vars(TimePasses)
    /\ WF_vars(HandleClose)

-----------------------------------------------------------------------------
(* Single calls of the sensor functions: one call, on any input, with the *)
(* capability flag as any outcome of the import leaves it.               *)

SensorInit ==
    /\ pc = "call"
    /\ importOutcome \in {"ok", "ImportError", "Exception"}
    /\ gpus_available = DetectGpu(importOutcome)
    /\ display = InitialDisplay
    /\ timers = <<>>
    /\ inflight = 0
    /\ elapsed = 0
    /\ uiPending = 0
    /\ closeRequested = FALSE
    /\ tick = NoTick
    /\ lastPublished = InitialDisplay
    /\ everPublished = FALSE
    /\ getGPUsInvoked = FALSE
    /\ sensorCall = [fn |-> "none"]

CallIp ==
    /\ pc = "call"
    /\ \E f \in IpInputs :
          sensorCall' = [fn |-> "get_ip_address", in |-> f,
                         out |-> get_ip_address(f)]
    /\ pc' = "returned"
    /\ UNCHANGED <<gpus_available, importOutcome, display, timers,
                   inflight, elapsed, uiPending, closeRequested, tick,
                   lastPublished, everPublished, getGPUsInvoked>>

CallCpu ==
    /\ pc = "call"
    /\ \E f \in CpuInputs :
          sensorCall' = [fn |-> "get_cpu_info", in |-> f,
                         out |-> get_cpu_info(f)]
    /\ pc' = "returned"
    /\ UNCHANGED <<gpus_available, importOutcome, display, timers,
                   inflight, elapsed, uiPending, closeRequested, tick,
                   lastPublished, everPublished, getGPUsInvoked>>

CallRam ==
    /\ pc = "call"
    /\ \E f \in RamInputs :
          sensorCall' = [fn |-> "get_ram_info", in |-> f,
                         out |-> get_ram_info(f)]
    /\ pc' = "returned"
    /\ UNCHANGED <<gpus_available, importOutcome, display, timers,
                   inflight, elapsed, uiPending, closeRequested, tick,
                   lastPublished, everPublished, getGPUsInvoked>>

CallGpu ==
    /\ pc = "call"
    /\ \E f \in GpuInputs :
          LET r == get_gpu_info(gpus_available, f)
          IN  /\ sensorCall' = [fn |-> "get_gpu_info", in |-> f, out |-> r]
              /\ getGPUsInvoked' = (getGPUsInvoked \/ r.queried)
    /\ pc' = "returned"
    /\ UNCHANGED <<gpus_available, importOutcome, display, timers,
                   inflight, elapsed, uiPending, closeRequested, tick,
                   lastPublished, everPublished>>

SensorNext == CallIp \/ CallCpu \/ CallRam \/ CallGpu

SensorSpec == SensorInit /\ [][SensorNext]_vars

-----------------------------------------------------------------------------
(* Properties *)

\* update_info has returned at least once and the main loop is waiting.
TickFinished == pc = "idle"

\* C1 (as claimed): a tick in which one sensor call raised still made all
\* four sensor calls and published its snapshot, so that the fields of the
\* other sensors show the values those sensors produced.
C1_SensorIsolation ==
    (TickFinished /\ tick.raised) =>
        (tick.made = Len(Sensors) /\ ~tick.error)

\* C2: at most one execution of update_info is in flight, however long
\* sampling takes, and no timer is armed while one is in flight: the next
\* tick is armed only when sampling and publication are over.
C2_NonOverlap ==
    /\ inflight <= 1
    /\ (inflight = 1) = (pc = "sampling")
    /\ pc = "sampling" => timers = <<>>

\* C2 witness: a tick other than the first has been sampling for longer
\* than the timer period, alone.
C2_Witness ==
    /\ pc = "sampling"
    /\ everPublished
    /\ elapsed > Period
    /\ inflight = 1

\* Neither a tick running nor a tick armed.
LoopStopped == pc = "idle" /\ timers = <<>>

\* C3: the refresh loop never stops on its own: whenever the main loop is
\* waiting a tick is armed, whatever the last tick did, and unless the
\* window is closed the armed tick eventually runs.
C3_LoopNeverStops ==
    /\ [](~LoopStopped)
    /\ [](pc = "idle" => <>(pc = "sampling" \/ pc = "exited"))

\* C3 witness: a tick ended in the handler of line 179 and the next tick
\* has been entered.
C3_Witness ==
    /\ pc = "sampling"
    /\ tick.error
    /\ tick.raised

\* C4 (as claimed): after a tick that hit an error, the seven displayed
\* fields are those of the snapshot published before it.
C4_FailedTickKeepsSnapshot ==
    (TickFinished /\ everPublished /\ tick.error) => display = lastPublished

\* C5: once a tick has published, no field shows the placeholder: each of
\* the seven fields is a sampled value or an unavailability text.
C5_AllFieldsSet ==
    everPublished =>
        \A f \in FieldSet :
            /\ display[f] # Placeholder
            /\ lastPublished[f] # Placeholder
            /\ lastPublished[f] # Unbound

\* C5 witness: a published snapshot with a sampled value and an
\* unavailability text side by side.
C5_Witness ==
    /\ everPublished
    /\ ~tick.error
    /\ display.cpu_name = "Test CPU"
    /\ display.ip = IpNetworkError
    /\ display.gpu_usage = "55.0%"

\* The call examined is get_ip_address and the host name resolved.
IpCallResolved ==
    /\ pc = "returned"
    /\ sensorCall.fn = "get_ip_address"
    /\ sensorCall.in.hostname = "ok"
    /\ sensorCall.in.resolve1 \in Addrs

\* The socket trick of lines 34-39 yields an address.
TrickSucceeds(f) ==
    /\ f.socket = "ok"
    /\ f.settimeout = "ok"
    /\ f.connect = "ok"
    /\ f.sockname \in Addrs

\* C6 (as claimed): a non-loopback resolution is returned as it is; a
\* loopback resolution is replaced by the address of the socket trick when
\* the trick succeeds, and returned itself, as a value, when it fails.
C6_LoopbackFallback ==
    IpCallResolved =>
        LET f == sensorCall.in
        IN  sensorCall.out.value =
                IF ~startswith127(f.resolve1) THEN f.resolve1
                ELSE IF TrickSucceeds(f) THEN f.sockname
                ELSE f.resolve1

\* C7: get_ip_address returns a value, an address or one of its two
\* unavailability texts, whichever of its calls fail.
C7_IpNeverRaises ==
    (pc = "returned" /\ sensorCall.fn = "get_ip_address") =>
        /\ sensorCall.out.exc = "none"
        /\ sensorCall.out.value \in Addrs \cup {IpNetworkError, IpError}

\* C7 witness: the socket could not be created after a loopback
\* resolution, and the call returned the error text.
C7_Witness ==
    /\ IpCallResolved
    /\ startswith127(sensorCall.in.resolve1)
    /\ sensorCall.in.socket = "error"
    /\ sensorCall.out.exc = "none"
    /\ sensorCall.out.value = IpError

\* C8: with the capability flag false get_gpu_info returns the unavailable
\* pair and GPUtil.getGPUs is not invoked.
C8_GpuAbsent ==
    (pc = "returned" /\ sensorCall.fn = "get_gpu_info" /\ ~gpus_available) =>
        /\ sensorCall.out.name = GpuUnavailable
        /\ sensorCall.out.usage = NA
        /\ ~sensorCall.out.queried
        /\ ~getGPUsInvoked

\* C8 witness: the flag is false and a query would have found a device.
C8_Witness ==
    /\ pc = "returned"
    /\ sensorCall.fn = "get_gpu_info"
    /\ ~gpus_available
    /\ ~sensorCall.in.fault
    /\ sensorCall.in.gpus # <<>>
    /\ sensorCall.out.name = GpuUnavailable

\* The import of GPUtil failed.
ImportFailed == importOutcome \in {"ImportError", "Exception"}

\* C9: a failed import leaves the flag false; no tick changes the flag;
\* from then on the GPU fields never show a device and the device query
\* is never made; the loop still runs (a tick is running or armed).
C9_CapabilityOneShot ==
    /\ [](ImportFailed =>
            /\ ~gpus_available
            /\ ~getGPUsInvoked
            /\ display.gpu_name \in {Placeholder, GpuUnavailable}
            /\ display.gpu_usage \in {Placeholder, NA}
            /\ ~LoopStopped)
    /\ [][pc # "import" => gpus_available' = gpus_available]_vars

\* C9 witness: after a failed import a tick has published the values of
\* the other sensors beside the unavailable GPU, and the next is armed.
C9_Witness ==
    /\ importOutcome = "Exception"
    /\ pc = "idle"
    /\ everPublished
    /\ ~tick.error
    /\ display.cpu_name = "Test CPU"
    /\ display.ip = "10.0.0.5"
    /\ display.gpu_name = GpuUnavailable
    /\ timers # <<>>

\* C10 (as claimed): an input event that is waiting while a tick is
\* sampling can be handled before the tick finishes.
C10_UINotStalled ==
    (pc = "sampling" /\ uiPending > 0) => ENABLED HandleUIEvent


\* The texts the sensors return in place of a value they could not obtain.
UnavailableTexts ==
    {IpNetworkError, IpError, CpuNameMissing, CpuNameError, NA,
     GpuUnavailable, GpuNoDevice, GpuQueryError}

\* A field shows a value a sensor obtained.
ShowsValue(d, f) == d[f] \notin UnavailableTexts \cup {Placeholder}

\* C11 (as claimed): the display shows, for each metric, the most recent
\* value obtained successfully: a field that shows an obtained value never
\* goes back to showing anything else than an obtained value.
C11_KeepsLastGoodValue ==
    [][\A f \in FieldSet : ShowsValue(display, f) => ShowsValue(display', f)]_vars

\* What the seven fields show when each sensor returns on its own input.
ExpectedDisplay(available, fi, fc, fr, fg) ==
    [ip |-> get_ip_address(fi).value,
     cpu_name |-> get_cpu_info(fc).name,
     cpu_usage |-> ShownUsage(get_cpu_info(fc).usage),
     ram_total |-> get_ram_info(fr).total,
     ram_usage |-> ShownUsage(get_ram_info(fr).usage),
     gpu_name |-> get_gpu_info(available, fg).name,
     gpu_usage |-> get_gpu_info(available, fg).usage]

\* The displays in which every field is what its own sensor returns.
ExpectedDisplays ==
    {ExpectedDisplay(gpus_available, fi, fc, fr, fg) :
        fi \in TickIpInputs, fc \in TickCpuInputs, fr \in TickRamInputs,
        fg \in TickGpuInputs}

\* C11 (amended): each field shows the placeholder or what its own sensor
\* returned, the value or that sensor's own N/A text, never a text of
\* another sensor; after a tick that published, the seven fields are what
\* the four sensors returned in one tick.
C11_ShowsOwnSensorResult ==
    /\ \A f \in FieldSet :
          display[f] \in {Placeholder} \cup {d[f] : d \in ExpectedDisplays}
    /\ (TickFinished /\ ~tick.error) => display \in ExpectedDisplays

\* C11 witness: a published snapshot in which the resolver and the GPU
\* query failed beside the values of the CPU and of the memory.
C11_Witness ==
    /\ TickFinished
    /\ ~tick.error
    /\ display.ip = IpNetworkError
    /\ display.cpu_name = "Test CPU"
    /\ display.ram_total = "2.00 GB"
    /\ display.gpu_name = GpuQueryError


\* The program is in its refresh loop: constructed and not exited.
InLoop == pc \in {"sampling", "idle"}

\* C12: missed ticks are not queued: while the program is in its loop the
\* armed callbacks and the running executions of update_info are together
\* exactly one, after normal ticks and after ticks that ended in the
\* handler alike, however long sampling took.
C12_NoQueueing == InLoop => Len(timers) + inflight = 1

\* C12 witness: the tick after one that ended in the handler has been
\* sampling for the longest time distinguished, with nothing armed.
C12_Witness ==
    /\ pc = "sampling"
    /\ tick.error
    /\ elapsed = MaxPeriodsElapsed * Period
    /\ Len(timers) + inflight = 1


\* The call examined is get_gpu_info with the capability present.
GpuCallAvailable ==
    /\ pc = "returned"
    /\ sensorCall.fn = "get_gpu_info"
    /\ gpus_available

\* The text of a load (in thousandths) as a percentage with one decimal.
LoadText(load) ==
    CASE load = 0 -> "0.0%"
      [] load = 550 -> "55.0%"
      [] load = 1000 -> "100.0%"
      [] OTHER -> "?"

\* C13: with the capability present, a raising query gives the query-error
\* pair, an empty list the no-device pair, and any other list the name and
\* the load, as a percentage, of its first device, whatever follows it.
C13_GpuResult ==
    GpuCallAvailable =>
        LET f == sensorCall.in
            r == sensorCall.out
        IN  /\ r.exc = "none"
            /\ f.fault => r.name = GpuQueryError /\ r.usage = NA
            /\ (~f.fault /\ f.gpus = <<>>) =>
                    r.name = GpuNoDevice /\ r.usage = NA
            /\ (~f.fault /\ f.gpus # <<>>) =>
                    /\ r.name = f.gpus[1].name
                    /\ r.usage = LoadText(f.gpus[1].load)

\* C13 witness: two devices, the second one busier and of another name;
\* the first one is reported.
C13_Witness ==
    /\ GpuCallAvailable
    /\ ~sensorCall.in.fault
    /\ Len(sensorCall.in.gpus) = 2
    /\ sensorCall.in.gpus[1] = [name |-> "GPU A", load |-> 550]
    /\ sensorCall.in.gpus[2] = [name |-> "GPU B", load |-> 1000]
    /\ sensorCall.out.name = "GPU A"
    /\ sensorCall.out.usage = "55.0%"


\* The call examined is get_cpu_info.
CpuCall == pc = "returned" /\ sensorCall.fn = "get_cpu_info"

\* C14: get_cpu_info never raises; the name is unavailable exactly when the
\* name lookup failed and is otherwise the brand found (or the default of
\* the dictionary lookup), the usage is unavailable exactly when the
\* measurement failed and is otherwise the measured value; neither depends
\* on the outcome of the other.
C14_CpuIndependence ==
    CpuCall =>
        LET f == sensorCall.in
            r == sensorCall.out
        IN  /\ r.exc = "none"
            /\ (f.info = "error") <=> (r.name = CpuNameError)
            /\ f.info \notin {"error", NoBrand} => r.name = f.info
            /\ f.info = NoBrand => r.name = "N/A"
            /\ f.percent.isnum => r.usage = f.percent
            /\ ~f.percent.isnum => r.usage = Str("N/A")

\* C14 witness: the name lookup failed and the usage was still measured.
C14_Witness ==
    /\ CpuCall
    /\ sensorCall.in.info = "error"
    /\ sensorCall.in.percent = Num(4236)
    /\ sensorCall.out.name = CpuNameError
    /\ sensorCall.out.usage = Num(4236)


\* The call examined is get_ip_address.
IpCall == pc = "returned" /\ sensorCall.fn = "get_ip_address"

\* The socket was opened and the try block of lines 36-44 was entered:
\* connect succeeded or failed, getsockname failed, the re-fetch failed.
TrickEntered ==
    /\ IpCall
    /\ sensorCall.out.opened
    /\ sensorCall.in.settimeout \notin Faults

\* On the paths through the try block of lines 36-44, s.close() was called.
TrickPathsClose == TrickEntered => sensorCall.out.closed

\* C15: every call of get_ip_address that opened the fallback socket has
\* called s.close() on it by the time it returns.  (closed records the call
\* of line 44; what a finaliser does later with an unclosed socket is up to
\* the runtime.)
C15_SocketReleased ==
    IpCall => (sensorCall.out.opened => sensorCall.out.closed)


\* The loop has ended: mainloop() returned or the process was terminated.
Ended == pc \in {"exited", "killed"}

\* A request to close the window takes effect only between ticks.
CloseOnlyInIdle ==
    [][(pc # "exited" /\ pc' = "exited") => (pc = "idle" /\ inflight = 0)]_vars

\* C16: the loop ends only from Idle with no tick in flight, so a tick that
\* was sampling when the shutdown arrived has published and returned
\* first; once the loop has ended no tick starts.
C16_ShutdownOnlyInIdle ==
    [][/\ (~Ended /\ Ended') => (pc = "idle" /\ inflight = 0)
       /\ Ended => (Ended' /\ inflight' = inflight)]_vars

====
